---- MODULE Spec2Model ----
(***************************************************************************)
(* Kimi reasoning parsers of vllm/reasoning: the text of a generation is   *)
(* split into a "reasoning" channel and a "content" channel by the tags    *)
(* START_TEXT and END_TEXT.  Three parser classes are modelled:            *)
(*   kimi   KimiReasoningParser   (prefix batch policy, stateless stream)  *)
(*   kimi2  Kimi2ReasoningParser  (regex batch policy, stateless stream)   *)
(*   kimi3  Kimi3ReasoningParser  (prefix batch policy, state machine)     *)
(* A Python str is a sequence of one-character strings.  The characters    *)
(* U+25C1 and U+25B7 that open and close the tags are written "<" and ">". *)
(***************************************************************************)
EXTENDS Integers, Sequences, FiniteSets, TLC

VARIABLES
    live,        \* the requests of the scenario (each owns one parser instance)
    text,        \* text[i]: the complete model output of request i
    kind,        \* kind[i]: class of the parser constructed for i ("none" before)
    tokenizer,   \* tokenizer[i]: the reference passed to the constructor
    ctor,        \* ctor[i]: "none" | "ok" | "ValueError", outcome of construction
    heap,        \* heap[i]: the instance attributes _state and _delta_accumulator
    pos,         \* pos[i]: characters of text[i] delivered so far (len(previous_text))
    calls,       \* calls[i]: streaming calls made: 0, 1, or 2 for "two or more"
    cut,         \* cut[i]: some chunk boundary so far fell strictly inside a tag
    nonEmpty,    \* nonEmpty[i]: every chunk delivered so far was non-empty
    ret,         \* ret[i]: what the last streaming call returned
    r_out,       \* r_out[i]: concatenation of the reasoning_content fragments
    c_out,       \* c_out[i]: concatenation of the content fragments
    solo,        \* solo[i]: the same chunks run through an isolated instance
    batch        \* batch[i]: what extract_reasoning_content returned

vars == <<live, text, kind, tokenizer, ctor, heap, pos, calls, cut, nonEmpty,
          ret, r_out, c_out, solo, batch>>

----------------------------------------------------------------------------
(* Bounds of the model *)

\* longest model output, in pieces (a piece is a tag or a single character)
MaxPieces == 3

\* number of requests in the two-instance scenario
Inst == {1, 2}

----------------------------------------------------------------------------
(* Module constants of kimi3_reasoning_parser.py *)

STATE_INITIAL == 0
STATE_REASONING == 1
STATE_OUTPUT == 2

START_TEXT == <<"<", "t", "h", "i", "n", "k", ">">>
START_TEXT_LENGTH == Len(START_TEXT)

END_TEXT == <<"<", "/", "t", "h", "i", "n", "k", ">">>
END_TEXT_LENGTH == Len(END_TEXT)

----------------------------------------------------------------------------
(* Python str operations, by what they do *)

Min(a, b) == IF a < b THEN a ELSE b

\* s[:n] for n >= 0
Take(s, n) == SubSeq(s, 1, Min(n, Len(s)))

\* s[n:] for n >= 0
Drop(s, n) == IF n >= Len(s) THEN <<>> ELSE SubSeq(s, n + 1, Len(s))

\* s[a:b] for 0 <= a, 0 <= b
Slice(s, a, b) == IF Min(b, Len(s)) <= a THEN <<>> ELSE SubSeq(s, a + 1, Min(b, Len(s)))

\* s.startswith(p)
StartsWith(s, p) == Len(p) <= Len(s) /\ SubSeq(s, 1, Len(p)) = p

\* s.endswith(p)
EndsWith(s, p) == Len(p) <= Len(s) /\ SubSeq(s, Len(s) - Len(p) + 1, Len(s)) = p

\* p occurs in s at the 0-based index i
OccursAt(s, p, i) == i >= 0 /\ i + Len(p) <= Len(s) /\ SubSeq(s, i + 1, i + Len(p)) = p

\* s.find(p): the lowest index of an occurrence, -1 when there is none
Find(s, p) ==
    LET hits == {i \in 0..(Len(s) - Len(p)) : OccursAt(s, p, i)}
    IN  IF hits = {} THEN -1 ELSE CHOOSE i \in hits : \A j \in hits : i <= j

\* p in s
Contains(s, p) == Find(s, p) # -1

\* Optional[str]: None, or a str
None == [some |-> FALSE, val |-> <<>>]
Some(s) == [some |-> TRUE, val |-> s]

\* s or None
OrNone(s) == IF s = <<>> THEN None ELSE Some(s)

\* the text of an optional fragment, absence counted as empty
Str(o) == o.val

\* DeltaMessage(reasoning_content=r, content=c); both fields default to None
DeltaMessage(r, c) == [tag |-> "DeltaMessage", reasoning_content |-> r, content |-> c]

\* a streaming call that returned None
RetNone == [tag |-> "None", reasoning_content |-> None, content |-> None]

\* no streaming call made yet
NoCall == [tag |-> "nocall", reasoning_content |-> None, content |-> None]

\* the tuple returned by extract_reasoning_content
BatchResult(r, c) == [tag |-> "tuple", reasoning |-> r, content |-> c]

\* extract_reasoning_content not called yet
NoBatch == [tag |-> "nocall", reasoning |-> None, content |-> None]

\* an exception escaping extract_reasoning_content
BatchRaise(e) == [tag |-> e, reasoning |-> None, content |-> None]

----------------------------------------------------------------------------
(* Kimi3ReasoningParser *)

\* START_PREFIXES without the empty string: range(1, len(START_TEXT) - 1)
START_PREFIXES_NonEmpty == {Take(START_TEXT, i) : i \in 1..(Len(START_TEXT) - 2)}

\* START_PREFIXES = set(START_TEXT[:i] for i in range(len(START_TEXT) - 1))
START_PREFIXES == {Take(START_TEXT, i) : i \in 0..(Len(START_TEXT) - 2)}

\* END_PREFIXES up to the longest proper prefix: range(1, len(END_TEXT))
END_PREFIXES_All == [i \in 1..(Len(END_TEXT) - 1) |-> Take(END_TEXT, i)]

\* END_PREFIXES = [END_TEXT[:i] for i in range(1, len(END_TEXT) - 1)]
END_PREFIXES == [i \in 1..(Len(END_TEXT) - 2) |-> Take(END_TEXT, i)]

\* extract_reasoning_content with str.index in place of str.find
Kimi3ExtractIndex(model_output) ==
    IF ~StartsWith(model_output, START_TEXT)
    THEN BatchResult(None, Some(model_output))
    ELSE LET rest == Drop(model_output, START_TEXT_LENGTH)
             reasoning_done_index == Find(rest, END_TEXT)
         IN  IF reasoning_done_index = -1
             THEN BatchRaise("ValueError")
             ELSE BatchResult(OrNone(Take(rest, reasoning_done_index)),
                              OrNone(Drop(rest, reasoning_done_index + END_TEXT_LENGTH)))

\* extract_reasoning_content with the end tag left at the head of the content
Kimi3ExtractKeepEnd(model_output) ==
    IF ~StartsWith(model_output, START_TEXT)
    THEN BatchResult(None, Some(model_output))
    ELSE LET rest == Drop(model_output, START_TEXT_LENGTH)
             reasoning_done_index == Find(rest, END_TEXT)
         IN  IF reasoning_done_index = -1
             THEN BatchResult(Some(rest), None)
             ELSE BatchResult(OrNone(Take(rest, reasoning_done_index)),
                              OrNone(Drop(rest, reasoning_done_index)))

\* Kimi3ReasoningParser.extract_reasoning_content(model_output, request)
Kimi3Extract(model_output) ==
    IF ~StartsWith(model_output, START_TEXT)
    THEN BatchResult(None, Some(model_output))
    ELSE LET rest == Drop(model_output, START_TEXT_LENGTH)
             reasoning_done_index == Find(rest, END_TEXT)
         IN  IF reasoning_done_index = -1
             THEN BatchResult(Some(rest), None)
             ELSE LET content_start_index == reasoning_done_index + END_TEXT_LENGTH
                  IN  BatchResult(OrNone(Take(rest, reasoning_done_index)),
                                  OrNone(Drop(rest, content_start_index)))

\* the first p of END_PREFIXES, in list order, with delta.endswith(p); 0 when none
FirstEndPrefix(delta) ==
    LET hits == {k \in DOMAIN END_PREFIXES : EndsWith(delta, END_PREFIXES[k])}
    IN  IF hits = {} THEN 0 ELSE CHOOSE k \in hits : \A j \in hits : k <= j

\* the STATE_REASONING part with the reasoning before the end tag normalised
\* like the content: reasoning_delta = delta[:reasoning_done_index] or None
Kimi3ReasoningOrNone(delta) ==
    LET reasoning_done_index == Find(delta, END_TEXT)
        k == FirstEndPrefix(delta)
    IN  IF reasoning_done_index = -1
        THEN IF k # 0
             THEN [state |-> STATE_REASONING,
                   acc   |-> END_PREFIXES[k],
                   ret   |-> DeltaMessage(Some(Take(delta, Len(delta) - Len(END_PREFIXES[k]))), None)]
             ELSE [state |-> STATE_REASONING,
                   acc   |-> <<>>,
                   ret   |-> DeltaMessage(Some(delta), None)]
        ELSE [state |-> STATE_OUTPUT,
              acc   |-> <<>>,
              ret   |-> DeltaMessage(OrNone(Take(delta, reasoning_done_index)),
                                     OrNone(Drop(delta, reasoning_done_index + END_TEXT_LENGTH)))]

\* the part of extract_reasoning_content_streaming reached in STATE_REASONING
\* (lines 79-95), delta being the text after any start tag was stripped
Kimi3Reasoning(delta) ==
    LET reasoning_done_index == Find(delta, END_TEXT)
        k == FirstEndPrefix(delta)
    IN  IF reasoning_done_index = -1
        THEN IF k # 0
             THEN [state |-> STATE_REASONING,
                   acc   |-> END_PREFIXES[k],
                   ret   |-> DeltaMessage(Some(Take(delta, Len(delta) - Len(END_PREFIXES[k]))), None)]
             ELSE [state |-> STATE_REASONING,
                   acc   |-> <<>>,
                   ret   |-> DeltaMessage(Some(delta), None)]
        ELSE [state |-> STATE_OUTPUT,
              acc   |-> <<>>,
              ret   |-> DeltaMessage(Some(Take(delta, reasoning_done_index)),
                                     OrNone(Drop(delta, reasoning_done_index + END_TEXT_LENGTH)))]

\* extract_reasoning_content_streaming that leaves INITIAL for OUTPUT with
\* delta_text alone: the text held in the accumulator is dropped
Kimi3StreamingDropBuffer(state, acc, delta_text) ==
    LET delta == acc \o delta_text
    IN  IF state = STATE_INITIAL
        THEN IF StartsWith(delta, START_TEXT)
             THEN Kimi3Reasoning(Drop(delta, START_TEXT_LENGTH))
             ELSE IF delta \in START_PREFIXES
                  THEN [state |-> STATE_INITIAL, acc |-> delta, ret |-> RetNone]
                  ELSE [state |-> STATE_OUTPUT, acc |-> <<>>,
                        ret |-> DeltaMessage(None, OrNone(delta_text))]
        ELSE IF state = STATE_REASONING
             THEN Kimi3Reasoning(delta)
             ELSE [state |-> STATE_OUTPUT, acc |-> <<>>,
                   ret |-> DeltaMessage(None, OrNone(delta))]

\* extract_reasoning_content_streaming testing for the start tag before the
\* state: a start tag at the head of a later chunk opens reasoning again
Kimi3StreamingReentrant(state, acc, delta_text) ==
    LET delta == acc \o delta_text
    IN  IF state # STATE_REASONING /\ StartsWith(delta, START_TEXT)
        THEN Kimi3Reasoning(Drop(delta, START_TEXT_LENGTH))
        ELSE IF state = STATE_INITIAL
             THEN IF delta \in START_PREFIXES
                  THEN [state |-> STATE_INITIAL, acc |-> delta, ret |-> RetNone]
                  ELSE [state |-> STATE_OUTPUT, acc |-> <<>>,
                        ret |-> DeltaMessage(None, OrNone(delta))]
             ELSE IF state = STATE_REASONING
                  THEN Kimi3Reasoning(delta)
                  ELSE [state |-> STATE_OUTPUT, acc |-> <<>>,
                        ret |-> DeltaMessage(None, OrNone(delta))]

\* Kimi3ReasoningParser.extract_reasoning_content_streaming on an instance
\* whose fields are (state, acc): the new fields and the value returned
Kimi3Streaming(state, acc, delta_text) ==
    LET delta == acc \o delta_text
    IN  IF state = STATE_INITIAL
        THEN IF StartsWith(delta, START_TEXT)
             THEN Kimi3Reasoning(Drop(delta, START_TEXT_LENGTH))
             ELSE IF delta \in START_PREFIXES
                  THEN [state |-> STATE_INITIAL, acc |-> delta, ret |-> RetNone]
                  ELSE [state |-> STATE_OUTPUT, acc |-> <<>>,
                        ret |-> DeltaMessage(None, OrNone(delta))]
        ELSE IF state = STATE_REASONING
             THEN Kimi3Reasoning(delta)
             ELSE [state |-> STATE_OUTPUT, acc |-> <<>>,
                   ret |-> DeltaMessage(None, OrNone(delta))]

----------------------------------------------------------------------------
(* KimiReasoningParser *)

\* str.partition(sep) when sep occurs in s: the text before and after the
\* first occurrence
PartitionBefore(s, sep) == Take(s, Find(s, sep))
PartitionAfter(s, sep) == Drop(s, Find(s, sep) + Len(sep))

\* extract_reasoning_content entering reasoning mode on a start tag anywhere
KimiExtractAnywhere(model_output) ==
    IF ~Contains(model_output, START_TEXT)
    THEN BatchResult(None, Some(model_output))
    ELSE LET model_output_without_start ==
                 Drop(model_output, Find(model_output, START_TEXT) + Len(START_TEXT))
         IN  IF ~Contains(model_output_without_start, END_TEXT)
             THEN BatchResult(Some(model_output_without_start), None)
             ELSE BatchResult(Some(PartitionBefore(model_output_without_start, END_TEXT)),
                              OrNone(PartitionAfter(model_output_without_start, END_TEXT)))

\* KimiReasoningParser.extract_reasoning_content(model_output, request)
KimiExtract(model_output) ==
    IF ~StartsWith(model_output, START_TEXT)
    THEN BatchResult(None, Some(model_output))
    ELSE LET model_output_without_start == Drop(model_output, Len(START_TEXT))
         IN  IF ~Contains(model_output_without_start, END_TEXT)
             THEN BatchResult(Some(model_output_without_start), None)
             ELSE LET reasoning_content == PartitionBefore(model_output_without_start, END_TEXT)
                      content == PartitionAfter(model_output_without_start, END_TEXT)
                      final_content == OrNone(content)
                  IN  BatchResult(Some(reasoning_content), final_content)

\* KimiReasoningParser.extract_reasoning_content_streaming; current_text and
\* the token id arguments are not read
KimiStreaming(previous_text, delta_text) ==
    LET end_index == Find(delta_text, END_TEXT)
        start_index == Find(delta_text, START_TEXT)
        content == Drop(delta_text, end_index + Len(END_TEXT))
    IN  IF Contains(previous_text, START_TEXT)
        THEN IF Contains(delta_text, END_TEXT)
             THEN DeltaMessage(Some(Take(delta_text, end_index)), OrNone(content))
             ELSE IF Contains(previous_text, END_TEXT)
                  THEN DeltaMessage(None, Some(delta_text))
                  ELSE DeltaMessage(Some(delta_text), None)
        ELSE IF Contains(delta_text, START_TEXT)
             THEN IF Contains(delta_text, END_TEXT)
                  THEN DeltaMessage(Some(Slice(delta_text, start_index + Len(START_TEXT), end_index)),
                                    OrNone(content))
                  ELSE DeltaMessage(Some(delta_text), None)
             ELSE IF Contains(delta_text, END_TEXT)
                  THEN DeltaMessage(Some(Take(delta_text, end_index)), OrNone(content))
                  ELSE IF Contains(previous_text, END_TEXT)
                       THEN DeltaMessage(None, Some(delta_text))
                       ELSE DeltaMessage(Some(delta_text), None)

----------------------------------------------------------------------------
(* Kimi2ReasoningParser *)

\* the indices at which reasoning_regex can match: a start tag with an end
\* tag somewhere after it
RegexStarts(s) ==
    {i \in 0..Len(s) : /\ OccursAt(s, START_TEXT, i)
                       /\ \E j \in (i + Len(START_TEXT))..Len(s) : OccursAt(s, END_TEXT, j)}

\* the end tags that can close a match of reasoning_regex opened at index i
RegexEnds(s, i) == {j \in (i + Len(START_TEXT))..Len(s) : OccursAt(s, END_TEXT, j)}

\* the least and the greatest element of a non-empty set of integers
Least(S) == CHOOSE x \in S : \A y \in S : x <= y
Greatest(S) == CHOOSE x \in S : \A y \in S : x >= y

\* extract_reasoning_content with a greedy first group, (.*) in place of (.*?)
Kimi2ExtractGreedy(model_output) ==
    IF RegexStarts(model_output) = {}
    THEN BatchResult(None, Some(model_output))
    ELSE LET i == Least(RegexStarts(model_output))
             j == Greatest(RegexEnds(model_output, i))
             reasoning_content == Slice(model_output, i + Len(START_TEXT), j)
             response_content == Drop(model_output, j + Len(END_TEXT))
         IN  IF response_content = <<>>
             THEN BatchResult(Some(reasoning_content), None)
             ELSE BatchResult(Some(reasoning_content), Some(response_content))

\* Kimi2ReasoningParser.extract_reasoning_content(model_output, request):
\* re_match[0] of reasoning_regex.findall is the leftmost match; its first
\* group is lazy and its second group, under re.DOTALL, runs to the end
Kimi2Extract(model_output) ==
    IF RegexStarts(model_output) = {}
    THEN BatchResult(None, Some(model_output))
    ELSE LET i == Least(RegexStarts(model_output))
             j == Least(RegexEnds(model_output, i))
             reasoning_content == Slice(model_output, i + Len(START_TEXT), j)
             response_content == Drop(model_output, j + Len(END_TEXT))
         IN  IF response_content = <<>>
             THEN BatchResult(Some(reasoning_content), None)
             ELSE BatchResult(Some(reasoning_content), Some(response_content))

\* Kimi2ReasoningParser.extract_reasoning_content_streaming; current_text and
\* the token id arguments are not read
Kimi2Streaming(previous_text, delta_text) ==
    LET end_index == Find(delta_text, END_TEXT)
        start_index == Find(delta_text, START_TEXT)
        content == Drop(delta_text, end_index + Len(END_TEXT))
    IN  IF Contains(previous_text, START_TEXT)
        THEN IF Contains(delta_text, END_TEXT)
             THEN DeltaMessage(Some(Take(delta_text, end_index)), OrNone(content))
             ELSE IF Contains(previous_text, END_TEXT)
                  THEN DeltaMessage(None, Some(delta_text))
                  ELSE DeltaMessage(Some(delta_text), None)
        ELSE IF Contains(delta_text, START_TEXT)
             THEN IF Contains(delta_text, END_TEXT)
                  THEN DeltaMessage(Some(Slice(delta_text, start_index + Len(START_TEXT), end_index)),
                                    OrNone(content))
                  ELSE DeltaMessage(Some(delta_text), None)
             ELSE IF Contains(delta_text, END_TEXT)
                  THEN DeltaMessage(Some(Take(delta_text, end_index)), OrNone(content))
                  ELSE IF Contains(previous_text, END_TEXT)
                       THEN DeltaMessage(None, Some(delta_text))
                       ELSE DeltaMessage(Some(delta_text), None)

----------------------------------------------------------------------------
(* Construction *)

\* the tokenizer references a caller can pass: None, or a tokenizer object
Tokenizers == {"None", "tokenizer"}

\* ReasoningParser.__init__(tokenizer) of abs_reasoning_parsers.py: keeps the
\* reference as self.model_tokenizer, which the subclasses read afterwards
ReasoningParserInit(tok) == [model_tokenizer |-> tok]

\* not self.model_tokenizer
Not(model_tokenizer) == model_tokenizer = "None"

\* KimiReasoningParser.__init__(tokenizer): "ok", or the exception raised
KimiInit(tok) ==
    LET self == ReasoningParserInit(tok)
    IN  IF Not(self.model_tokenizer) THEN "ValueError" ELSE "ok"

\* Kimi2ReasoningParser.__init__(tokenizer): "ok", or the exception raised
Kimi2Init(tok) ==
    LET self == ReasoningParserInit(tok)
    IN  IF Not(self.model_tokenizer) THEN "ValueError" ELSE "ok"

\* Kimi3ReasoningParser.__init__(tokenizer): no test of the reference
Kimi3Init(tok) ==
    LET self == ReasoningParserInit(tok)
    IN  "ok"

\* the attributes of an instance that was not constructed
NoObject == [state |-> -1, delta_accumulator |-> <<>>]

\* self._state = st; self._delta_accumulator = acc, as class attributes: the
\* accumulator is one string shared by every instance
StoreShared(h, self, st, acc) ==
    [j \in DOMAIN h |-> IF j = self
                        THEN [state |-> st, delta_accumulator |-> acc]
                        ELSE [h[j] EXCEPT !.delta_accumulator = acc]]

\* self._state = st; self._delta_accumulator = acc: attributes of self alone
Store(h, self, st, acc) ==
    [h EXCEPT ![self] = [state |-> st, delta_accumulator |-> acc]]

----------------------------------------------------------------------------
(* The model outputs and their delivery in chunks *)

\* a model output is a concatenation of tags and single characters
Pieces == {START_TEXT, END_TEXT, <<"a">>, <<"<">>}

RECURSIVE Concats(_)
Concats(n) ==
    IF n = 0 THEN {<<>>}
    ELSE LET shorter == Concats(n - 1)
         IN  shorter \cup {t \o p : t \in shorter, p \in Pieces}

\* the example of the docstrings: <think>abc</think>xyz
DocExample == START_TEXT \o <<"a", "b", "c">> \o END_TEXT \o <<"x", "y", "z">>

\* the inputs listed under "Intended behavior" in kimi3_reasoning_parser.py
Intended ==
    { START_TEXT \o <<"a">> \o END_TEXT \o <<"b">>,
      START_TEXT \o <<"a">>,
      START_TEXT \o END_TEXT \o <<"b">>,
      START_TEXT \o <<"a">> \o END_TEXT,
      START_TEXT \o <<"a">> \o START_TEXT \o <<"b">> \o END_TEXT \o <<"c">>,
      START_TEXT \o <<"a">> \o END_TEXT \o <<"b">> \o END_TEXT \o <<"c">>,
      START_TEXT \o <<"a">> \o END_TEXT \o <<"b">> \o START_TEXT \o <<"c">>,
      <<"x">> \o START_TEXT \o <<"a">> \o END_TEXT \o <<"b">>,
      END_TEXT \o <<"a">>,
      <<"x">> }

Texts == Concats(MaxPieces) \cup Intended \cup {DocExample}

\* the outputs of the two concurrent requests
TwoTexts == {START_TEXT \o <<"a">> \o END_TEXT \o <<"b">>, <<"<", "t", "a">>}

\* the boundary after the first p characters of t falls strictly inside the
\* start tag at position zero or inside the first end tag after it
CutsTag(t, p) ==
    /\ StartsWith(t, START_TEXT)
    /\ \/ 0 < p /\ p < Len(START_TEXT)
       \/ LET e == Find(Drop(t, Len(START_TEXT)), END_TEXT)
          IN  /\ e # -1
              /\ Len(START_TEXT) + e < p
              /\ p < Len(START_TEXT) + e + Len(END_TEXT)

\* the next n characters of the output of request i
Chunk(i, n) == SubSeq(text[i], pos[i] + 1, pos[i] + n)

\* the caller's bookkeeping of one streaming call that took n characters and
\* returned r
Delivered(i, n, r) ==
    /\ pos' = [pos EXCEPT ![i] = @ + n]
    /\ calls' = [calls EXCEPT ![i] = Min(@ + 1, 2)]
    /\ cut' = [cut EXCEPT ![i] = @ \/ (pos[i] + n < Len(text[i]) /\ CutsTag(text[i], pos[i] + n))]
    /\ nonEmpty' = [nonEmpty EXCEPT ![i] = @ /\ n > 0]
    /\ ret' = [ret EXCEPT ![i] = r]
    /\ r_out' = [r_out EXCEPT ![i] = @ \o Str(r.reasoning_content)]
    /\ c_out' = [c_out EXCEPT ![i] = @ \o Str(r.content)]
    /\ UNCHANGED <<live, text, kind, tokenizer, ctor, batch>>

----------------------------------------------------------------------------
(* Initial states *)

InitOf(requests, outputs) ==
    /\ live = requests
    /\ \E t \in [requests -> outputs] :
          text = [i \in Inst |-> IF i \in requests THEN t[i] ELSE <<>>]
    /\ kind = [i \in Inst |-> "none"]
    /\ tokenizer = [i \in Inst |-> "None"]
    /\ ctor = [i \in Inst |-> "none"]
    /\ heap = [i \in Inst |-> NoObject]
    /\ pos = [i \in Inst |-> 0]
    /\ calls = [i \in Inst |-> 0]
    /\ cut = [i \in Inst |-> FALSE]
    /\ nonEmpty = [i \in Inst |-> TRUE]
    /\ ret = [i \in Inst |-> NoCall]
    /\ r_out = [i \in Inst |-> <<>>]
    /\ c_out = [i \in Inst |-> <<>>]
    /\ solo = [i \in Inst |-> [state |-> -1, acc |-> <<>>, ret |-> NoCall]]
    /\ batch = [i \in Inst |-> NoBatch]

\* one request
Init == InitOf({1}, Texts)

\* two requests in flight, each with its own Kimi3ReasoningParser
InitTwo == InitOf(Inst, TwoTexts)

----------------------------------------------------------------------------
(* Actions *)

Constructed(i, k, tok, outcome) ==
    /\ i \in live
    /\ kind[i] = "none"
    /\ kind' = [kind EXCEPT ![i] = k]
    /\ tokenizer' = [tokenizer EXCEPT ![i] = tok]
    /\ ctor' = [ctor EXCEPT ![i] = outcome]
    /\ UNCHANGED <<live, text, pos, calls, cut, nonEmpty, ret, r_out, c_out, batch>>

\* KimiReasoningParser(tokenizer)
ConstructKimi(i) ==
    \E tok \in Tokenizers :
        /\ Constructed(i, "kimi", tok, KimiInit(tok))
        /\ UNCHANGED <<heap, solo>>

\* Kimi2ReasoningParser(tokenizer)
ConstructKimi2(i) ==
    \E tok \in Tokenizers :
        /\ Constructed(i, "kimi2", tok, Kimi2Init(tok))
        /\ UNCHANGED <<heap, solo>>

\* Kimi3ReasoningParser(tokenizer)
ConstructKimi3(i) ==
    \E tok \in Tokenizers :
        /\ Constructed(i, "kimi3", tok, Kimi3Init(tok))
        /\ heap' = Store(heap, i, STATE_INITIAL, <<>>)
        /\ solo' = [solo EXCEPT ![i] = [state |-> STATE_INITIAL, acc |-> <<>>, ret |-> NoCall]]

\* a request is streamed or answered in one piece; the batch operation also
\* serves to reconcile a stream once it is complete
Streamable(i, k) ==
    /\ i \in live /\ kind[i] = k /\ ctor[i] = "ok"
    /\ batch[i] = NoBatch

\* one call of KimiReasoningParser.extract_reasoning_content_streaming
StreamKimi(i) ==
    /\ Streamable(i, "kimi")
    /\ \E n \in 0..(Len(text[i]) - pos[i]) :
          Delivered(i, n, KimiStreaming(Take(text[i], pos[i]), Chunk(i, n)))
    /\ UNCHANGED <<heap, solo>>

\* one call of Kimi2ReasoningParser.extract_reasoning_content_streaming
StreamKimi2(i) ==
    /\ Streamable(i, "kimi2")
    /\ \E n \in 0..(Len(text[i]) - pos[i]) :
          Delivered(i, n, Kimi2Streaming(Take(text[i], pos[i]), Chunk(i, n)))
    /\ UNCHANGED <<heap, solo>>

\* one call of Kimi3ReasoningParser.extract_reasoning_content_streaming
StreamKimi3(i) ==
    /\ Streamable(i, "kimi3")
    /\ \E n \in 0..(Len(text[i]) - pos[i]) :
          LET res == Kimi3Streaming(heap[i].state, heap[i].delta_accumulator, Chunk(i, n))
              alone == Kimi3Streaming(solo[i].state, solo[i].acc, Chunk(i, n))
          IN  /\ heap' = Store(heap, i, res.state, res.acc)
              /\ solo' = [solo EXCEPT ![i] = alone]
              /\ Delivered(i, n, res.ret)

Extracted(i, k, result) ==
    /\ i \in live /\ kind[i] = k /\ ctor[i] = "ok"
    /\ batch[i] = NoBatch
    /\ calls[i] = 0 \/ pos[i] = Len(text[i])
    /\ batch' = [batch EXCEPT ![i] = result]
    /\ UNCHANGED <<live, text, kind, tokenizer, ctor, heap, pos, calls, cut,
                   nonEmpty, ret, r_out, c_out, solo>>

\* KimiReasoningParser.extract_reasoning_content on the complete output
ExtractKimi(i) == Extracted(i, "kimi", KimiExtract(text[i]))

\* Kimi2ReasoningParser.extract_reasoning_content on the complete output
ExtractKimi2(i) == Extracted(i, "kimi2", Kimi2Extract(text[i]))

\* Kimi3ReasoningParser.extract_reasoning_content on the complete output
ExtractKimi3(i) == Extracted(i, "kimi3", Kimi3Extract(text[i]))

Next ==
    \E i \in Inst :
        \/ ConstructKimi(i)
        \/ ConstructKimi2(i)
        \/ ConstructKimi3(i)
        \/ StreamKimi(i)
        \/ StreamKimi2(i)
        \/ StreamKimi3(i)
        \/ ExtractKimi(i)
        \/ ExtractKimi2(i)
        \/ ExtractKimi3(i)

Spec == Init /\ [][Next]_vars

NextTwo ==
    \E i \in Inst :
        \/ ConstructKimi3(i)
        \/ StreamKimi3(i)

SpecTwo == InitTwo /\ [][NextTwo]_vars

----------------------------------------------------------------------------
(* Vocabulary of the properties *)

\* the stream of request i was delivered completely, in at least one call
Complete(i) == ctor[i] = "ok" /\ calls[i] >= 1 /\ pos[i] = Len(text[i])

\* the number of occurrences of p in s
Occurrences(s, p) == Cardinality({j \in 0..Len(s) : OccursAt(s, p, j)})

\* t = START_TEXT + r + END_TEXT + c with one start tag and one end tag
WellFormed(t) ==
    /\ StartsWith(t, START_TEXT)
    /\ Occurrences(t, START_TEXT) = 1
    /\ Occurrences(t, END_TEXT) = 1

\* the r and the c of a well-formed t
ReasoningOf(t) == Slice(t, Len(START_TEXT), Find(t, END_TEXT))
ContentOf(t) == Drop(t, Find(t, END_TEXT) + Len(END_TEXT))

\* what a fresh Kimi3 instance returns when it is fed t as a single chunk
WholeChunk(t) == Kimi3Streaming(STATE_INITIAL, <<>>, t).ret

----------------------------------------------------------------------------
(* Properties *)

\* C1: chunk-boundary invariance of the Kimi3 streaming operation: once a text
\* has been delivered completely in non-empty chunks, the concatenated
\* reasoning fragments and the concatenated content fragments equal those of
\* feeding the whole text as one chunk to a fresh instance.
C1_ChunkBoundaryInvariance ==
    \A i \in live :
        (kind[i] = "kimi3" /\ Complete(i) /\ nonEmpty[i]) =>
            /\ r_out[i] = Str(WholeChunk(text[i]).reasoning_content)
            /\ c_out[i] = Str(WholeChunk(text[i]).content)

\* C2: split-delimiter recovery of the Kimi3 streaming operation: for a
\* well-formed text START_TEXT + r + END_TEXT + c whose start tag or end tag was
\* cut by a chunk boundary, the cumulative result is reasoning = r, content = c.
C2_SplitDelimiterRecovery ==
    \A i \in live :
        (kind[i] = "kimi3" /\ Complete(i) /\ cut[i] /\ WellFormed(text[i])) =>
            /\ r_out[i] = ReasoningOf(text[i])
            /\ c_out[i] = ContentOf(text[i])

\* C3: batch/streaming agreement: for a text with a single start tag at
\* position zero and a single end tag, fed as one chunk to a fresh Kimi3
\* instance, the streamed reasoning and content (absence counted as empty)
\* equal those of extract_reasoning_content on the same text.
C3_BatchStreamingAgreement ==
    \A i \in live :
        (/\ kind[i] = "kimi3" /\ Complete(i) /\ calls[i] = 1
         /\ batch[i] # NoBatch /\ WellFormed(text[i])) =>
            /\ batch[i].tag = "tuple"
            /\ r_out[i] = Str(batch[i].reasoning)
            /\ c_out[i] = Str(batch[i].content)

\* a well-formed text with both parts non-empty went through both operations
C3_Witness ==
    \E i \in live :
        /\ kind[i] = "kimi3" /\ Complete(i) /\ calls[i] = 1
        /\ batch[i] # NoBatch /\ WellFormed(text[i])
        /\ r_out[i] # <<>> /\ c_out[i] # <<>>

\* C4: prefix-policy batch split of KimiReasoningParser and
\* Kimi3ReasoningParser: when the text starts with the start tag and the
\* remainder contains the end tag, the result is split at the first end tag of
\* the remainder, an empty reasoning and an empty content both reported as None.
C4_PrefixPolicySplit ==
    \A i \in live :
        LET rest == Drop(text[i], Len(START_TEXT))
            e == Find(rest, END_TEXT)
        IN  (/\ kind[i] \in {"kimi", "kimi3"} /\ batch[i] # NoBatch
             /\ StartsWith(text[i], START_TEXT) /\ e # -1) =>
                batch[i] = BatchResult(OrNone(Take(rest, e)),
                                       OrNone(Drop(rest, e + Len(END_TEXT))))

\* C5: prefix-policy batch, no leading tag: for a text that does not start
\* with the start tag, extract_reasoning_content of KimiReasoningParser and of
\* Kimi3ReasoningParser returns (None, text), whatever tags occur later.
C5_NoLeadingTag ==
    \A i \in live :
        (/\ kind[i] \in {"kimi", "kimi3"} /\ batch[i] # NoBatch
         /\ ~StartsWith(text[i], START_TEXT)) =>
            batch[i] = BatchResult(None, Some(text[i]))

\* both parsers answered for a text in which a tag pair follows other text
C5_Witness ==
    \E i \in live :
        /\ kind[i] = "kimi" /\ batch[i] # NoBatch
        /\ ~StartsWith(text[i], START_TEXT)
        /\ Find(text[i], START_TEXT) > 0
        /\ Find(text[i], END_TEXT) > Find(text[i], START_TEXT)

\* C6: anywhere-policy batch of Kimi2ReasoningParser: the first start tag and
\* the first end tag after it delimit the reasoning, the text after that end
\* tag is the content, the text before the start tag is in neither result;
\* without such a pair the result is (None, text).
C6_AnywherePolicy ==
    \A i \in live :
        LET t == text[i]
            s == Find(t, START_TEXT)
            rest == Drop(t, s + Len(START_TEXT))
            e == Find(rest, END_TEXT)
        IN  (kind[i] = "kimi2" /\ batch[i] # NoBatch) =>
                IF s # -1 /\ e # -1
                THEN /\ batch[i].tag = "tuple"
                     /\ batch[i].reasoning = Some(Take(rest, e))
                     /\ Str(batch[i].content) = Drop(rest, e + Len(END_TEXT))
                     /\ Take(t, s) \o START_TEXT \o Str(batch[i].reasoning)
                            \o END_TEXT \o Str(batch[i].content) = t
                ELSE batch[i] = BatchResult(None, Some(t))

\* the regex matched a text in which other text precedes the start tag and
\* follows the end tag
C6_Witness ==
    \E i \in live :
        /\ kind[i] = "kimi2" /\ batch[i] # NoBatch
        /\ Find(text[i], START_TEXT) > 0
        /\ batch[i].reasoning.some
        /\ batch[i].content.some

\* C7: never fail on data: every batch call of the three parsers returns a
\* (reasoning, content) tuple and every Kimi3 streaming call returns None or a
\* DeltaMessage; no call raises.
C7_NeverFailOnData ==
    \A i \in live :
        /\ batch[i] # NoBatch => batch[i].tag = "tuple"
        /\ (kind[i] = "kimi3" /\ calls[i] >= 1) =>
              ret[i].tag \in {"None", "DeltaMessage"}

\* a text with mismatched tags (an end tag before any start tag, or a start
\* tag that is never closed) was streamed and then split
C7_Witness ==
    \E i \in live :
        /\ kind[i] = "kimi3" /\ calls[i] = 2 /\ batch[i] # NoBatch
        /\ StartsWith(text[i], START_TEXT)
        /\ ~Contains(text[i], END_TEXT)

\* C8: instance independence: whatever the interleaving of the calls on two
\* Kimi3 instances, the fields of each instance and the event it returned are
\* those of an instance that received the same chunks alone.
C8_InstanceIndependence ==
    \A i \in live :
        (kind[i] = "kimi3") =>
            /\ heap[i].state = solo[i].state
            /\ heap[i].delta_accumulator = solo[i].acc
            /\ ret[i] = solo[i].ret

\* both instances were called more than once and withhold different text
C8_Witness ==
    /\ \A i \in Inst : i \in live /\ kind[i] = "kimi3" /\ calls[i] = 2
    /\ heap[1].delta_accumulator # <<>>
    /\ heap[2].delta_accumulator # <<>>
    /\ heap[1] # heap[2]

\* C9: stateless streaming of KimiReasoningParser and Kimi2ReasoningParser: for
\* the text <think>abc</think>xyz delivered as any sequence of deltas, the
\* concatenated reasoning fragments are abc and the concatenated content
\* fragments are xyz.
C9_DocstringStreaming ==
    \A i \in live :
        (kind[i] \in {"kimi", "kimi2"} /\ Complete(i) /\ text[i] = DocExample) =>
            /\ r_out[i] = <<"a", "b", "c">>
            /\ c_out[i] = <<"x", "y", "z">>

\* C10: construction with an absent tokenizer fails with a configuration
\* error for each of the three classes; construction with a tokenizer succeeds,
\* a Kimi3 instance starting in STATE_INITIAL with an empty accumulator.
C10_Construction ==
    \A i \in live :
        (kind[i] # "none") =>
            /\ tokenizer[i] = "None" => ctor[i] = "ValueError"
            /\ tokenizer[i] # "None" => ctor[i] = "ok"
            /\ (kind[i] = "kimi3" /\ ctor[i] = "ok" /\ calls[i] = 0) =>
                  heap[i] = [state |-> STATE_INITIAL, delta_accumulator |-> <<>>]

----------------------------------------------------------------------------
(* Vocabulary of the step properties: a step of the Kimi3 instance of request
   i that is one streaming call *)

\* the step is a streaming call on the parser of class k of request i
Streamed(i, k) ==
    /\ kind[i] = k /\ kind'[i] = k /\ ctor[i] = "ok"
    /\ batch'[i] = batch[i]
    /\ \/ heap'[i] # heap[i] \/ pos'[i] # pos[i] \/ calls'[i] # calls[i]
       \/ ret'[i] # ret[i] \/ r_out'[i] # r_out[i] \/ c_out'[i] # c_out[i]

\* the chunk the call received, and accumulator + chunk
LastChunk(i) == SubSeq(text[i], pos[i] + 1, pos'[i])
Combined(i) == heap[i].delta_accumulator \o LastChunk(i)

\* s is a non-empty proper prefix of the tag
ProperPrefix(s, tagText) ==
    /\ 0 < Len(s) /\ Len(s) < Len(tagText)
    /\ s = Take(tagText, Len(s))

\* the length of the longest suffix of s that is a non-empty proper prefix of
\* the tag, 0 when there is none
LongestTagSuffix(s, tagText) ==
    LET fits == {n \in 1..(Len(tagText) - 1) : EndsWith(s, Take(tagText, n))}
    IN  IF fits = {} THEN 0 ELSE CHOOSE n \in fits : \A m \in fits : n >= m

\* C11: the Kimi3 state moves only forward: a step leaves it in place or takes
\* it from INITIAL to REASONING, from REASONING to OUTPUT or from INITIAL to
\* OUTPUT; OUTPUT is never left and REASONING is never entered again.
C11_ForwardOnly ==
    [][\A i \in live :
          (kind[i] = "kimi3") =>
              <<heap[i].state, heap'[i].state>> \in
                  { <<STATE_INITIAL, STATE_INITIAL>>, <<STATE_INITIAL, STATE_REASONING>>,
                    <<STATE_INITIAL, STATE_OUTPUT>>, <<STATE_REASONING, STATE_REASONING>>,
                    <<STATE_REASONING, STATE_OUTPUT>>, <<STATE_OUTPUT, STATE_OUTPUT>> }]_vars

\* the reasoning span was closed and a later start tag went out as content
C11_Witness ==
    \E i \in live :
        /\ kind[i] = "kimi3" /\ heap[i].state = STATE_OUTPUT
        /\ r_out[i] # <<>>
        /\ Contains(c_out[i], START_TEXT)

\* C12: bounded withholding: after every Kimi3 streaming call the accumulator
\* is shorter than max(len(START_TEXT), len(END_TEXT)) - 1.
C12_BoundedWithholding ==
    \A i \in live :
        (kind[i] = "kimi3") =>
            LET longest == IF Len(START_TEXT) > Len(END_TEXT)
                           THEN Len(START_TEXT) ELSE Len(END_TEXT)
            IN  Len(heap[i].delta_accumulator) < longest - 1

\* in REASONING the accumulator holds the longest prefix END_PREFIXES lists
C12_Witness ==
    \E i \in live :
        /\ kind[i] = "kimi3" /\ heap[i].state = STATE_REASONING
        /\ Len(heap[i].delta_accumulator) = Len(END_TEXT) - 2

\* C13: start-tag suspension: in INITIAL, whenever accumulator + chunk is a
\* non-empty proper prefix of the start tag, of any length from 1 to
\* len(START_TEXT) - 1, the call stores it in the accumulator, returns None and
\* leaves the state INITIAL.
C13_StartTagSuspension ==
    [][\A i \in live :
          (/\ Streamed(i, "kimi3") /\ heap[i].state = STATE_INITIAL
           /\ ProperPrefix(Combined(i), START_TEXT)) =>
              /\ heap'[i] = [state |-> STATE_INITIAL, delta_accumulator |-> Combined(i)]
              /\ ret'[i] = RetNone]_vars

\* C14: end-tag withholding: in REASONING, when accumulator + chunk holds no
\* end tag, its longest suffix that is a non-empty proper prefix of the end
\* tag (length 1 to len(END_TEXT) - 1) is stored in the accumulator and the text
\* before it is returned as reasoning_content, content unset; without such a
\* suffix the whole text is returned and the accumulator stays empty.
C14_EndTagWithholding ==
    [][\A i \in live :
          (/\ Streamed(i, "kimi3") /\ heap[i].state = STATE_REASONING
           /\ ~Contains(Combined(i), END_TEXT)) =>
              LET n == LongestTagSuffix(Combined(i), END_TEXT)
                  kept == Len(Combined(i)) - n
              IN  /\ heap'[i] = [state |-> STATE_REASONING,
                                 delta_accumulator |-> Drop(Combined(i), kept)]
                  /\ ret'[i] = DeltaMessage(Some(Take(Combined(i), kept)), None)]_vars

\* C15: direct path from INITIAL to OUTPUT: in INITIAL, when accumulator +
\* chunk neither starts with the start tag nor is a prefix of it, the call moves
\* to OUTPUT and returns the whole of accumulator + chunk as content, with
\* reasoning_content absent.
C15_DirectOutput ==
    [][\A i \in live :
          (/\ Streamed(i, "kimi3") /\ heap[i].state = STATE_INITIAL
           /\ ~StartsWith(Combined(i), START_TEXT)
           /\ Combined(i) # <<>> /\ ~ProperPrefix(Combined(i), START_TEXT)) =>
              /\ heap'[i] = [state |-> STATE_OUTPUT, delta_accumulator |-> <<>>]
              /\ ret'[i] = DeltaMessage(None, Some(Combined(i)))
              /\ c_out'[i] = Take(text[i], pos'[i])]_vars

\* a text with a start tag after a first character that was a candidate prefix
\* went out whole as content, in more than one call
C15_Witness ==
    \E i \in live :
        /\ kind[i] = "kimi3" /\ heap[i].state = STATE_OUTPUT /\ calls[i] = 2
        /\ r_out[i] = <<>>
        /\ c_out[i] = <<"<">> \o START_TEXT

\* the text of accumulator + chunk searched for the end tag by a call that is
\* in REASONING or enters it; <<>> for a call that does neither
Searched(i) ==
    IF heap[i].state = STATE_REASONING THEN Combined(i)
    ELSE IF heap[i].state = STATE_INITIAL /\ StartsWith(Combined(i), START_TEXT)
         THEN Drop(Combined(i), Len(START_TEXT))
         ELSE <<>>

\* C16: on the call that finds the end tag, reasoning_content is the text
\* before the first end tag verbatim, an empty string and not None when that
\* text is empty; content is the text after the end tag, None when empty; the
\* state becomes OUTPUT.
C16_EndTagStep ==
    [][\A i \in live :
          (Streamed(i, "kimi3") /\ Contains(Searched(i), END_TEXT)) =>
              LET e == Find(Searched(i), END_TEXT)
                  after == Drop(Searched(i), e + Len(END_TEXT))
              IN  /\ heap'[i].state = STATE_OUTPUT
                  /\ ret'[i].reasoning_content = Some(Take(Searched(i), e))
                  /\ ret'[i].content = IF after = <<>> THEN None ELSE Some(after)]_vars

\* the call that closed the reasoning returned an empty string and no content
C16_Witness ==
    \E i \in live :
        /\ kind[i] = "kimi3" /\ heap[i].state = STATE_OUTPUT /\ r_out[i] # <<>>
        /\ ret[i] = DeltaMessage(Some(<<>>), None)

\* C17: once the state is OUTPUT, every later call returns reasoning_content
\* absent and content equal to the chunk, None exactly for an empty chunk; tags
\* and tag prefixes go out as literal content and nothing is withheld.
C17_OutputVerbatim ==
    [][\A i \in live :
          (Streamed(i, "kimi3") /\ heap[i].state = STATE_OUTPUT) =>
              /\ ret'[i] = DeltaMessage(None, OrNone(LastChunk(i)))
              /\ heap'[i] = [state |-> STATE_OUTPUT, delta_accumulator |-> <<>>]
              /\ r_out'[i] = r_out[i]
              /\ c_out'[i] = c_out[i] \o LastChunk(i)]_vars

\* after the reasoning was closed, a call returned an end tag as content
C17_Witness ==
    \E i \in live :
        /\ kind[i] = "kimi3" /\ heap[i].state = STATE_OUTPUT /\ r_out[i] # <<>>
        /\ ~ret[i].reasoning_content.some
        /\ StartsWith(Str(ret[i].content), END_TEXT)

\* C18: conservation of text in Kimi3 streaming: after every call the text fed
\* so far is, by state, INITIAL: the accumulator; REASONING: start tag + emitted
\* reasoning + accumulator; OUTPUT reached through REASONING: start tag +
\* emitted reasoning + end tag + emitted content; OUTPUT reached from INITIAL
\* directly: the emitted content; in OUTPUT each chunk is appended to the
\* content, and what was emitted is only ever extended.
C18_Conservation ==
    [][\A i \in live :
          Streamed(i, "kimi3") =>
              LET fed == Take(text[i], pos'[i])
                  before == heap[i].state
                  after == heap'[i].state
                  withheld == heap'[i].delta_accumulator
                  entered == \/ before = STATE_REASONING
                             \/ before = STATE_INITIAL /\ StartsWith(Combined(i), START_TEXT)
              IN  /\ StartsWith(r_out'[i], r_out[i])
                  /\ StartsWith(c_out'[i], c_out[i])
                  /\ after = STATE_INITIAL =>
                        fed = withheld /\ r_out'[i] = <<>> /\ c_out'[i] = <<>>
                  /\ after = STATE_REASONING =>
                        fed = START_TEXT \o r_out'[i] \o withheld /\ c_out'[i] = <<>>
                  /\ (after = STATE_OUTPUT /\ entered) =>
                        fed = START_TEXT \o r_out'[i] \o END_TEXT \o c_out'[i]
                  /\ (after = STATE_OUTPUT /\ before = STATE_INITIAL /\ ~entered) =>
                        fed = c_out'[i] /\ r_out'[i] = <<>>
                  /\ before = STATE_OUTPUT =>
                        r_out'[i] = r_out[i] /\ c_out'[i] = c_out[i] \o LastChunk(i)]_vars

\* OUTPUT was reached through REASONING in several calls, with reasoning and
\* content emitted and text withheld on the way
C18_Witness ==
    \E i \in live :
        /\ kind[i] = "kimi3" /\ heap[i].state = STATE_OUTPUT /\ calls[i] = 2 /\ cut[i]
        /\ r_out[i] # <<>> /\ c_out[i] # <<>>
        /\ Take(text[i], pos[i]) = START_TEXT \o r_out[i] \o END_TEXT \o c_out[i]

\* C19: an empty chunk is a no-op on the Kimi3 machine: the call leaves state
\* and accumulator unchanged and emits no text; it returns None in INITIAL, an
\* event with an empty reasoning_content in REASONING and an event with no
\* content in OUTPUT.
C19_EmptyChunk ==
    [][\A i \in live :
          (Streamed(i, "kimi3") /\ pos'[i] = pos[i]) =>
              /\ heap'[i] = heap[i]
              /\ r_out'[i] = r_out[i]
              /\ c_out'[i] = c_out[i]
              /\ heap[i].state = STATE_INITIAL => ret'[i] = RetNone
              /\ heap[i].state = STATE_REASONING => ret'[i] = DeltaMessage(Some(<<>>), None)
              /\ heap[i].state = STATE_OUTPUT => ret'[i] = DeltaMessage(None, None)]_vars

\* only empty chunks were fed and the machine is still in INITIAL
C19_Witness ==
    \E i \in live :
        /\ kind[i] = "kimi3" /\ calls[i] = 2 /\ ~nonEmpty[i] /\ pos[i] = 0
        /\ heap[i] = [state |-> STATE_INITIAL, delta_accumulator |-> <<>>]
        /\ ret[i] = RetNone

\* C20: forward-only classification in the stateless streaming of
\* KimiReasoningParser and Kimi2ReasoningParser: a call that returns
\* reasoning_content set is never preceded by a call that returned content, so
\* all content emitted so far is that of the call itself.
C20_ForwardOnlyStateless ==
    \A i \in live :
        (kind[i] \in {"kimi", "kimi2"} /\ ret[i].reasoning_content.some) =>
            c_out[i] = Str(ret[i].content)

====
